---- MODULE Spec2Model ----
(***************************************************************************)
(* Model of calculate_astronomical_events (calculator.py).                 *)
(*                                                                         *)
(* Instants are whole seconds counted from 00:00 UTC of the requested      *)
(* date.  The sun of the ephem library is represented by a piecewise       *)
(* linear altitude curve sampled every hour: it runs between the upper and *)
(* the lower culmination of the latitude and the declination of the date,  *)
(* its phase is set by the longitude, and the declination drifts from one  *)
(* day to the next.  Altitudes are in 1/24 of a degree.  The upper limb    *)
(* and refraction corrections of the horizon search are left out.          *)
(***************************************************************************)
EXTENDS Integers, Sequences, FiniteSets, TLC

(* ---------------- bounds of the explored inputs ---------------- *)
MaxLatIdx == 5
MaxLonIdx == 3
MaxTzoIdx == 2
\* hours that a rising or setting search looks ahead of the observer's date
SearchHours == 25

Latitudes == {l \in {15 * k : k \in 2..MaxLatIdx} \cup {-15} : l >= -90 /\ l <= 90}
Longitudes == {l \in {45 * k : k \in (0 - MaxLonIdx)..MaxLonIdx} : l >= -180 /\ l <= 180}
Dates == {"2025-03-20", "2025-05-01", "2025-06-21", "2025-08-02", "2025-12-21"}
\* tzo in seconds: multiples of 1.5 h, and 0.01 h (36 s), which is not a whole minute
TZOffsets == {5400 * k : k \in (0 - MaxTzoIdx)..MaxTzoIdx} \cup {36}

(* ---------------- values ---------------- *)
None == [some |-> FALSE, v |-> 0]
Some(x) == [some |-> TRUE, v |-> x]

\* a local value is the string "N/A" or a datetime
NAValue == [isdt |-> FALSE, t |-> 0]
DateTime(t) == [isdt |-> TRUE, t |-> t]

\* a rendered field: the text "N/A" or the two numbers printed around the colon
NA == [na |-> TRUE, hh |-> 0, mm |-> 0]
HM(h, m) == [na |-> FALSE, hh |-> h, mm |-> m]

Abs(x) == IF x < 0 THEN 0 - x ELSE x
\* int() of Python: truncation toward zero of a / b, b > 0
TruncDiv(a, b) == IF a >= 0 THEN a \div b ELSE 0 - ((0 - a) \div b)
SetMin(S) == CHOOSE x \in S : \A y \in S : x <= y

(* ---------------- the sun (ephem.Sun seen by ephem.Observer) ---------------- *)
\* declination of the sun at 00:00 UTC of the date, in 1/24 degree
Declination(d) ==
    CASE d = "2025-03-20" -> 0
      [] d = "2025-05-01" -> 24 * 15 - 12
      [] d = "2025-06-21" -> 24 * 23
      [] d = "2025-08-02" -> 24 * 15
      [] d = "2025-12-21" -> 0 - 24 * 23
      [] OTHER -> 0

\* change of the declination per hour, in 1/24 degree
DeclDrift(d) ==
    CASE d = "2025-03-20" -> 1
      [] d = "2025-05-01" -> 1
      [] d = "2025-08-02" -> -1
      [] OTHER -> 0

\* hour (UTC) of the upper culmination at this longitude
NoonUTC(lo) == (12 - (lo \div 15)) % 24

\* hours between grid hour g and the nearest upper culmination, 0..12
HourDist(lo, g) ==
    LET x == (g - NoonUTC(lo)) % 24
    IN  IF x <= 12 THEN x ELSE 24 - x

\* altitude of the sun's centre at grid hour g, in 1/24 degree
Altitude(la, lo, d, g) ==
    LET dec  == Declination(d) + DeclDrift(d) * g
        peak == 24 * 90 - Abs(24 * la - dec)
        low  == Abs(24 * la + dec) - 24 * 90
    IN  peak - (((peak - low) * HourDist(lo, g)) \div 12)

\* grid hours of the searched hours after startHour in which the altitude crosses
\* the horizon angle (degrees) in the wanted direction
Crossings(la, lo, d, horizon, startHour, rising) ==
    {j \in startHour..(startHour + SearchHours - 1) :
        LET a == Altitude(la, lo, d, j)
            b == Altitude(la, lo, d, j + 1)
        IN  IF rising THEN a < 24 * horizon /\ b >= 24 * horizon
                      ELSE a >= 24 * horizon /\ b < 24 * horizon}

\* the instant inside grid hour j at which the horizon angle is crossed
CrossingInstant(la, lo, d, horizon, j) ==
    LET a == Altitude(la, lo, d, j)
        b == Altitude(la, lo, d, j + 1)
    IN  3600 * j + ((3600 * Abs(24 * horizon - a)) \div Abs(b - a))

\* observer.next_rising / observer.next_setting with observer.date at startHour:
\* the first crossing after the observer's date, or AlwaysUpError / NeverUpError
NextCrossing(la, lo, d, horizon, startHour, rising) ==
    LET c == Crossings(la, lo, d, horizon, startHour, rising)
    IN  IF c = {}
        THEN [raised |-> TRUE,
              err |-> IF Altitude(la, lo, d, startHour + SearchHours) >= 24 * horizon
                      THEN "AlwaysUpError" ELSE "NeverUpError",
              t |-> 0]
        ELSE [raised |-> FALSE, err |-> "",
              t |-> CrossingInstant(la, lo, d, horizon, SetMin(c))]

next_rising(la, lo, d, horizon, startHour) == NextCrossing(la, lo, d, horizon, startHour, TRUE)
next_setting(la, lo, d, horizon, startHour) == NextCrossing(la, lo, d, horizon, startHour, FALSE)

(* ---------------- formatting ---------------- *)
\* timedelta(hours=int(tzo)) in place of timedelta(hours=tzo)
AddOffsetWholeHours(t, tz) == t + 3600 * TruncDiv(tz, 3600)

\* datetime + timedelta(hours=tzo), tzo held in seconds
AddOffset(t, tz) == t + tz

\* datetime.strftime("%H:%M")
Strftime(t) == HM((t \div 3600) % 24, (t \div 60) % 60)

\* f"{int(h):02d}:{int((h % 1) * 60):02d}" for h = secs / 3600
FormatLength(secs) == HM(TruncDiv(secs, 3600), (secs % 3600) \div 60)

\* x.strftime("%H:%M") if isinstance(x, datetime.datetime) else x
Render(x) == IF x.isdt THEN Strftime(x.t) ELSE NA

\* the (twilight type, horizon angle) list of the loop
TwilightTypes ==
    << [name |-> "Astronomical", angle |-> -18],
       [name |-> "Nautical", angle |-> -12],
       [name |-> "Civil", angle |-> -6] >>

TypeNames == {TwilightTypes[i].name : i \in 1..Len(TwilightTypes)}

\* timedelta(hours=3, minutes=6) in place of timedelta(hours=3, minutes=16)
UVBOffsetShort == 3 * 3600 + 6 * 60

\* timedelta(hours=1, minutes=8) and timedelta(hours=3, minutes=16)
UVAOffset == 1 * 3600 + 8 * 60
UVBOffset == 3 * 3600 + 16 * 60

\* twilight_times.get(key, "N/A")
Get(tt, key) == IF key \in DOMAIN tt THEN tt[key] ELSE NA

\* the dict after twilight_times[key] = value
Put(tt, key, value) == [k \in (DOMAIN tt) \cup {key} |-> IF k = key THEN value ELSE tt[k]]

(* ---------------- state of one call ---------------- *)
VARIABLES lat, lon, date_str, tzo,
          pc, horizon, obsHour,
          sunrise, sunset,
          sunrise_local, sunset_local,
          day_length_str, night_length_str, solar_noon_local,
          twIdx, dawns, dusks, twilight_times,
          uva_on_local, uva_off_local, uvb_on_local, uvb_off_local,
          sleep_duration, elevation_angle, result,
          callNo, prev_tzo, prev_result

vars == << lat, lon, date_str, tzo, pc, horizon, obsHour, sunrise, sunset,
           sunrise_local, sunset_local, day_length_str, night_length_str,
           solar_noon_local, twIdx, dawns, dusks, twilight_times,
           uva_on_local, uva_off_local, uvb_on_local, uvb_off_local,
           sleep_duration, elevation_angle, result,
           callNo, prev_tzo, prev_result >>

inputs == << lat, lon, date_str, tzo >>
callVars == << callNo, prev_tzo, prev_result >>
sunVars == << sunrise, sunset >>
lengthVars == << sunrise_local, sunset_local, day_length_str, night_length_str,
                 solar_noon_local >>
twilightVars == << twIdx, dawns, dusks, twilight_times >>
uvVars == << uva_on_local, uva_off_local, uvb_on_local, uvb_off_local, sleep_duration >>

EmptyDict == [k \in {} |-> NA]
NoResult == [k \in {} |-> NA]

\* lines 8-22: the locals of a call whose observer is at 00:00 UTC of the
\* date with horizon '0'
Entry ==
    /\ pc = "rising"
    /\ horizon = 0
    /\ obsHour = 0
    /\ sunrise = None
    /\ sunset = None
    /\ sunrise_local = NAValue
    /\ sunset_local = NAValue
    /\ day_length_str = NA
    /\ night_length_str = NA
    /\ solar_noon_local = NAValue
    /\ twIdx = 1
    /\ dawns = [n \in TypeNames |-> None]
    /\ dusks = [n \in TypeNames |-> None]
    /\ twilight_times = EmptyDict
    /\ uva_on_local = NAValue
    /\ uva_off_local = NAValue
    /\ uvb_on_local = NAValue
    /\ uvb_off_local = NAValue
    /\ sleep_duration = ""
    /\ elevation_angle = 0

Init ==
    /\ lat \in Latitudes
    /\ lon \in Longitudes
    /\ date_str \in Dates
    /\ tzo \in TZOffsets
    /\ Entry
    /\ result = NoResult
    /\ callNo = 1
    /\ prev_tzo = 0
    /\ prev_result = NoResult

\* line 26: sunrise = observer.next_rising(sun)
Rising ==
    /\ pc = "rising"
    /\ LET r == next_rising(lat, lon, date_str, horizon, obsHour)
       IN  IF r.raised
           THEN /\ pc' = "except"
                /\ UNCHANGED sunrise
           ELSE /\ sunrise' = Some(r.t)
                /\ pc' = "setting"
    /\ UNCHANGED << inputs, callVars, horizon, obsHour, sunset, lengthVars, twilightVars,
                    uvVars, elevation_angle, result >>

\* line 27: sunset = observer.next_setting(sun)
Setting ==
    /\ pc = "setting"
    /\ LET r == next_setting(lat, lon, date_str, horizon, obsHour)
       IN  IF r.raised
           THEN /\ pc' = "except"
                /\ UNCHANGED sunset
           ELSE /\ sunset' = Some(r.t)
                /\ pc' = "branch"
    /\ UNCHANGED << inputs, callVars, horizon, obsHour, sunrise, lengthVars, twilightVars,
                    uvVars, elevation_angle, result >>

\* lines 28-31: except (ephem.AlwaysUpError, ephem.NeverUpError)
Except ==
    /\ pc = "except"
    /\ sunrise' = None
    /\ sunset' = None
    /\ pc' = "branch"
    /\ UNCHANGED << inputs, callVars, horizon, obsHour, lengthVars, twilightVars,
                    uvVars, elevation_angle, result >>

\* lines 34-40: sunrise or sunset is not available
Fallback ==
    /\ pc = "branch"
    /\ (~sunrise.some \/ ~sunset.some)
    /\ sunrise_local' = NAValue
    /\ sunset_local' = NAValue
    /\ day_length_str' = (IF ~sunrise.some THEN HM(24, 0) ELSE HM(0, 0))
    /\ night_length_str' = (IF ~sunrise.some THEN HM(0, 0) ELSE HM(24, 0))
    /\ solar_noon_local' = DateTime(AddOffset(12 * 3600, tzo))
    /\ pc' = "dawn"
    /\ UNCHANGED << inputs, callVars, horizon, obsHour, sunVars, twilightVars,
                    uvVars, elevation_angle, result >>

\* lines 41-60: local times, day length, night length, solar noon
Lengths ==
    /\ pc = "branch"
    /\ sunrise.some /\ sunset.some
    /\ LET day_length_seconds == sunset.v - sunrise.v
       IN  /\ sunrise_local' = DateTime(AddOffset(sunrise.v, tzo))
           /\ sunset_local' = DateTime(AddOffset(sunset.v, tzo))
           /\ day_length_str' = FormatLength(day_length_seconds)
           /\ night_length_str' = FormatLength(24 * 3600 - day_length_seconds)
           /\ solar_noon_local' = DateTime(AddOffset((sunrise.v + sunset.v) \div 2, tzo))
    /\ pc' = "dawn"
    /\ UNCHANGED << inputs, callVars, horizon, obsHour, sunVars, twilightVars,
                    uvVars, elevation_angle, result >>

\* lines 71-82: horizon of the twilight type, date back to 00:00, the dawn
Dawn ==
    /\ pc = "dawn"
    /\ LET ty == TwilightTypes[twIdx]
           r  == next_rising(lat, lon, date_str, ty.angle, 0)
           key == ty.name \o "_Dawn"
       IN  /\ horizon' = ty.angle
           /\ obsHour' = 0
           /\ IF r.raised
              THEN /\ twilight_times' = Put(twilight_times, key, NA)
                   /\ UNCHANGED dawns
              ELSE /\ dawns' = [dawns EXCEPT ![ty.name] = Some(r.t)]
                   /\ twilight_times' = Put(twilight_times, key, Strftime(AddOffset(r.t, tzo)))
    /\ pc' = "dusk"
    /\ UNCHANGED << inputs, callVars, sunVars, lengthVars, twIdx, dusks,
                    uvVars, elevation_angle, result >>

\* lines 85-92: date to 12:00, the dusk; then the next twilight type
Dusk ==
    /\ pc = "dusk"
    /\ LET ty == TwilightTypes[twIdx]
           r  == next_setting(lat, lon, date_str, horizon, 12)
           key == ty.name \o "Dusk"
       IN  /\ obsHour' = 12
           /\ IF r.raised
              THEN /\ twilight_times' = Put(twilight_times, key, NA)
                   /\ UNCHANGED dusks
              ELSE /\ dusks' = [dusks EXCEPT ![ty.name] = Some(r.t)]
                   /\ twilight_times' = Put(twilight_times, key, Strftime(AddOffset(r.t, tzo)))
    /\ IF twIdx < Len(TwilightTypes)
       THEN /\ twIdx' = twIdx + 1
            /\ pc' = "dawn"
       ELSE /\ pc' = "uv"
            /\ UNCHANGED twIdx
    /\ UNCHANGED << inputs, callVars, horizon, sunVars, lengthVars, dawns,
                    uvVars, elevation_angle, result >>

\* lines 96-111: UV exposure times and sleep duration
UV ==
    /\ pc = "uv"
    /\ IF sunrise.some /\ sunset.some
       THEN /\ uva_on_local' = DateTime(sunrise_local.t + UVAOffset)
            /\ uva_off_local' = DateTime(sunset_local.t - UVAOffset)
            /\ uvb_on_local' = DateTime(sunrise_local.t + UVBOffset)
            /\ uvb_off_local' = DateTime(sunset_local.t - UVBOffset)
            /\ sleep_duration' = "7.638"
       ELSE /\ uva_on_local' = NAValue
            /\ uva_off_local' = NAValue
            /\ uvb_on_local' = NAValue
            /\ uvb_off_local' = NAValue
            /\ sleep_duration' = "7.0"
    /\ pc' = "elevation"
    /\ UNCHANGED << inputs, callVars, horizon, obsHour, sunVars, lengthVars, twilightVars,
                    elevation_angle, result >>

\* lines 115-118: elevation of the sun at 00:00 UTC, truncated to a degree
Elevation ==
    /\ pc = "elevation"
    /\ obsHour' = 0
    /\ elevation_angle' = TruncDiv(Altitude(lat, lon, date_str, 0), 24)
    /\ pc' = "build"
    /\ UNCHANGED << inputs, callVars, horizon, sunVars, lengthVars, twilightVars,
                    uvVars, result >>

\* lines 121-147: the report
Build ==
    /\ pc = "build"
    /\ result' =
         [ Astronomical_Dawn |-> Get(twilight_times, "Astronomical_Dawn"),
           Nautical_Dawn     |-> Get(twilight_times, "Nautical_Dawn"),
           Civil_Dawn        |-> Get(twilight_times, "Civil_Dawn"),
           sunrise           |-> Render(sunrise_local),
           UVA_on            |-> Render(uva_on_local),
           UVB_on            |-> Render(uvb_on_local),
           SolarNoon         |-> IF solar_noon_local.isdt
                                 THEN Strftime(solar_noon_local.t) ELSE HM(12, 0),
           UVB_off           |-> Render(uvb_off_local),
           UVA_off           |-> Render(uva_off_local),
           sunset            |-> Render(sunset_local),
           CivilDusk         |-> Get(twilight_times, "CivilDusk"),
           NauticalDusk      |-> Get(twilight_times, "NauticalDusk"),
           AstronomicalDusk  |-> Get(twilight_times, "AstronomicalDusk"),
           daylength         |-> day_length_str,
           nightLength       |-> night_length_str,
           sleepDuration     |-> sleep_duration,
           ElevationAngle    |-> elevation_angle ]
    /\ pc' = "done"
    /\ UNCHANGED << inputs, callVars, horizon, obsHour, sunVars, lengthVars, twilightVars,
                    uvVars, elevation_angle >>

\* a second call for the same latitude, longitude and date with another tzo
\* (the larger of the two comes second); the first report is kept for comparison
SecondCall ==
    /\ pc = "done"
    /\ callNo = 1
    /\ callNo' = 2
    /\ prev_result' = result
    /\ prev_tzo' = tzo
    /\ tzo' \in {t \in TZOffsets : t > tzo}
    /\ pc' = "rising"
    /\ horizon' = 0
    /\ obsHour' = 0
    /\ sunrise' = None
    /\ sunset' = None
    /\ sunrise_local' = NAValue
    /\ sunset_local' = NAValue
    /\ day_length_str' = NA
    /\ night_length_str' = NA
    /\ solar_noon_local' = NAValue
    /\ twIdx' = 1
    /\ dawns' = [n \in TypeNames |-> None]
    /\ dusks' = [n \in TypeNames |-> None]
    /\ twilight_times' = EmptyDict
    /\ uva_on_local' = NAValue
    /\ uva_off_local' = NAValue
    /\ uvb_on_local' = NAValue
    /\ uvb_off_local' = NAValue
    /\ sleep_duration' = ""
    /\ elevation_angle' = 0
    /\ UNCHANGED << lat, lon, date_str, result >>

Next ==
    \/ Rising
    \/ Setting
    \/ Except
    \/ Fallback
    \/ Lengths
    \/ Dawn
    \/ Dusk
    \/ UV
    \/ Elevation
    \/ Build

Spec == Init /\ [][Next]_vars

NextTwoCalls == Next \/ SecondCall

SpecTwoCalls == Init /\ [][NextTwoCalls]_vars

(* ---------------- properties ---------------- *)
Done == pc = "done"
BothFound == sunrise.some /\ sunset.some

AllEightFound ==
    /\ BothFound
    /\ \A n \in TypeNames : dawns[n].some /\ dusks[n].some

\* a length field read as a number of minutes; a leading minus sign covers
\* the hours and the minutes
LengthMinutes(f) ==
    IF f.hh < 0 THEN 0 - (Abs(f.hh) * 60 + f.mm) ELSE f.hh * 60 + f.mm

\* minutes after midnight of a rendered time
ClockMinutes(f) == f.hh * 60 + f.mm

\* the sun stays below / stays at or above the 0 degree horizon during the
\* 24 hours after 00:00 UTC of the date
NeverRises == \A g \in 0..24 : Altitude(lat, lon, date_str, g) < 0
NeverSets == \A g \in 0..24 : Altitude(lat, lon, date_str, g) >= 0

\* "N/A", or HH:MM with hours 00..24 and minutes 00..59
WellFormed(f) == f.na \/ (f.hh \in 0..24 /\ f.mm \in 0..59)

TimeFieldNames ==
    { "Astronomical_Dawn", "Nautical_Dawn", "Civil_Dawn", "sunrise",
      "UVA_on", "UVB_on", "SolarNoon", "UVB_off", "UVA_off", "sunset",
      "CivilDusk", "NauticalDusk", "AstronomicalDusk" }

LengthFieldNames == { "daylength", "nightLength" }

\* the second of two calls, whose tzo differs from the first by whole minutes
WholeMinutePair == callNo = 2 /\ (tzo - prev_tzo) % 60 = 0

\* event e, if found, is the first crossing of the angle in its direction
\* within the 24 hours after 00:00 UTC of the date
FirstInDay(e, angle, rising) ==
    e.some =>
        /\ e.v >= 0
        /\ e.v < 24 * 3600
        /\ \E j \in Crossings(lat, lon, date_str, angle, 0, rising) :
              /\ \A k \in Crossings(lat, lon, date_str, angle, 0, rising) : j <= k
              /\ e.v = CrossingInstant(lat, lon, date_str, angle, j)

\* C1: the rendered daylength and nightLength add up to 24:00 within one
\* minute, for every input.
C1_LengthsAddUp ==
    Done => Abs(LengthMinutes(result.daylength) + LengthMinutes(result.nightLength)
                - 24 * 60) <= 1

\* C2: when all eight threshold events are found, astronomicalDawn <=
\* nauticalDawn <= civilDawn <= sunrise <= sunset <= civilDusk <=
\* nauticalDusk <= astronomicalDusk as instants.
C2_TwilightOrdering ==
    (Done /\ AllEightFound) =>
        /\ dawns["Astronomical"].v <= dawns["Nautical"].v
        /\ dawns["Nautical"].v <= dawns["Civil"].v
        /\ dawns["Civil"].v <= sunrise.v
        /\ sunrise.v <= sunset.v
        /\ sunset.v <= dusks["Civil"].v
        /\ dusks["Civil"].v <= dusks["Nautical"].v
        /\ dusks["Nautical"].v <= dusks["Astronomical"].v

\* C3: when sunrise and sunset are both found, sunrise < solarNoon < sunset
\* as instants.
C3_NoonBetween ==
    (Done /\ BothFound) =>
        /\ sunrise.v + tzo < solar_noon_local.t
        /\ solar_noon_local.t < sunset.v + tzo

\* C4: when sunrise/sunset are not reported, a sun that never sets gives
\* daylength 24:00 and nightLength 00:00, and a sun that never rises gives
\* daylength 00:00 and nightLength 24:00.
C4_PolarLengths ==
    (Done /\ result.sunrise.na) =>
        /\ NeverSets => (result.daylength = HM(24, 0) /\ result.nightLength = HM(0, 0))
        /\ NeverRises => (result.daylength = HM(0, 0) /\ result.nightLength = HM(24, 0))

\* C5: each of the fifteen time and length fields of the report is "N/A" or
\* HH:MM with hours in 00..24 and minutes in 00..59.
C5_FieldsWellFormed ==
    Done => \A k \in TimeFieldNames \cup LengthFieldNames : WellFormed(result[k])

C7_UVWindows ==
    Done =>
        /\ BothFound =>
              /\ uva_on_local = DateTime(sunrise.v + tzo + 68 * 60)
              /\ uva_off_local = DateTime(sunset.v + tzo - 68 * 60)
              /\ uvb_on_local = DateTime(sunrise.v + tzo + 196 * 60)
              /\ uvb_off_local = DateTime(sunset.v + tzo - 196 * 60)
              /\ result.UVA_on = Strftime(uva_on_local.t)
              /\ result.UVA_off = Strftime(uva_off_local.t)
              /\ result.UVB_on = Strftime(uvb_on_local.t)
              /\ result.UVB_off = Strftime(uvb_off_local.t)
        /\ \A k \in {"UVA_on", "UVA_off", "UVB_on", "UVB_off"} :
              result[k].na <=> (result.sunrise.na /\ result.sunset.na)
        /\ result.sunrise.na <=> result.sunset.na

\* a report with sunrise and sunset found and all four UV fields rendered
C7_Witness ==
    /\ Done
    /\ BothFound
    /\ \A k \in {"UVA_on", "UVA_off", "UVB_on", "UVB_off", "sunrise", "sunset"} :
          ~result[k].na

\* C8: two calls for the same latitude, longitude and date whose tzo differ
\* by a whole number of minutes have the same fields "N/A", the same
\* daylength, nightLength, ElevationAngle and sleepDuration, and every rendered
\* time differs by the tzo difference modulo 24 hours.
C8_TzoDisplayOnly ==
    (Done /\ WholeMinutePair) =>
        /\ result.daylength = prev_result.daylength
        /\ result.nightLength = prev_result.nightLength
        /\ result.ElevationAngle = prev_result.ElevationAngle
        /\ result.sleepDuration = prev_result.sleepDuration
        /\ \A k \in TimeFieldNames :
              /\ result[k].na <=> prev_result[k].na
              /\ ~result[k].na =>
                    (ClockMinutes(result[k]) - ClockMinutes(prev_result[k])) % (24 * 60)
                        = ((tzo - prev_tzo) \div 60) % (24 * 60)

\* a second report whose tzo differs by whole minutes, with times that moved
\* and with one field "N/A"
C8_Witness ==
    /\ Done
    /\ WholeMinutePair
    /\ BothFound
    /\ result.sunrise # prev_result.sunrise
    /\ result.Astronomical_Dawn.na
    /\ ~result.CivilDusk.na

\* C9: every found event instant lies in the 24 hours that start at 00:00 UTC
\* of the date and is the first crossing of its threshold, in its direction,
\* inside that window.
C9_InsideDayWindow ==
    Done =>
        /\ FirstInDay(sunrise, 0, TRUE)
        /\ FirstInDay(sunset, 0, FALSE)
        /\ \A i \in 1..Len(TwilightTypes) :
              /\ FirstInDay(dawns[TwilightTypes[i].name], TwilightTypes[i].angle, TRUE)
              /\ FirstInDay(dusks[TwilightTypes[i].name], TwilightTypes[i].angle, FALSE)

\* C10: when sunrise and sunset are found, sunrise <= UVA_on <= UVB_on <=
\* SolarNoon <= UVB_off <= UVA_off <= sunset as instants, for every day length.
C10_UVNested ==
    (Done /\ BothFound) =>
        /\ sunrise_local.t <= uva_on_local.t
        /\ uva_on_local.t <= uvb_on_local.t
        /\ uvb_on_local.t <= solar_noon_local.t
        /\ solar_noon_local.t <= uvb_off_local.t
        /\ uvb_off_local.t <= uva_off_local.t
        /\ uva_off_local.t <= sunset_local.t

====
